---- MODULE Spec2Model ----
(***************************************************************************)
(* A model of doc/sphinxext/altair_ext/altairplot.py: the altair-plot      *)
(* directive (AltairPlotDirective.run), the snippet executor               *)
(* (exec_then_eval) and the per-format visitors                            *)
(* (html_visit_altair_plot, generic_visit_altair_plot).                    *)
(*                                                                         *)
(* Python values are tagged records.  A content block is a sequence of     *)
(* lines, one statement per line, each already at the level of the ast     *)
(* node that ast.parse builds for it.  Serialized JSON text is a sequence  *)
(* of tokens.                                                              *)
(***************************************************************************)
EXTENDS Integers, Sequences, FiniteSets, TLC

VARIABLES
    serial,     \* env's 'altair-plot' serial-number counter (next number)
    doctree,    \* the nodes the directive invocations returned, in order
    last,       \* the outcome of the last directive invocation
    files,      \* the output file system: path -> text written
    body,       \* the translator's output body (self.body)
    visited,    \* the indices of doctree the translator has visited
    sig,        \* what the last visitor did
    builder,    \* the output format of the build
    args,       \* the inputs of the last directive invocation
    ret,        \* what exec_then_eval returned to it (line 70)
    log         \* per invocation so far: did it return, which serial it drew

vars == <<serial, doctree, last, files, body, visited, sig, builder, args, ret, log>>

\* ------------------------------------------------------------------ bounds
MaxStmts == 3        \* lines of a content block, one invocation on its own
MaxRuns == 2         \* directive invocations of one build

\* ------------------------------------------------------ python/JSON values
None == [t |-> "null"]
Str(s) == [t |-> "str", s |-> s]
Num(n) == [t |-> "num", n |-> n]
Arr(items) == [t |-> "arr", items |-> items]
Obj(keys, vals) == [t |-> "obj", keys |-> keys, vals |-> vals]

\* Two Specifications, as Chart.to_dict() returns them.
SpecBar == Obj(<<"mark">>, <<Str("bar")>>)
SpecLine == Obj(<<"mark", "data">>, <<Str("line"), Arr(<<Num(1), None>>)>>)

\* The objects a snippet can build: two charts, an object whose to_dict()
\* returns None, and an object with no to_dict attribute.
ChartBar == [cls |-> "Chart", dict |-> SpecBar]
ChartLine == [cls |-> "Chart", dict |-> SpecLine]
ChartNone == [cls |-> "Chart", dict |-> None]
NotChart == [cls |-> "int"]
Objects == {ChartBar, ChartLine, ChartNone, NotChart}

has_to_dict(obj) == obj.cls = "Chart"
to_dict(obj) == obj.dict

\* ------------------------------------------------------------- json.dumps
Punct(c) == [k |-> "punct", v |-> c]
StrTok(s) == [k |-> "str", v |-> s]
NumTok(n) == [k |-> "num", v |-> n]
NullTok == [k |-> "null"]

RECURSIVE json_dumps(_)
RECURSIVE dumps_items(_, _)
RECURSIVE dumps_members(_, _, _)
dumps_items(items, i) ==
    IF i > Len(items) THEN <<>>
    ELSE (IF i > 1 THEN <<Punct(",")>> ELSE <<>>)
         \o json_dumps(items[i]) \o dumps_items(items, i + 1)
dumps_members(keys, vals, i) ==
    IF i > Len(keys) THEN <<>>
    ELSE (IF i > 1 THEN <<Punct(",")>> ELSE <<>>)
         \o <<StrTok(keys[i]), Punct(":")>> \o json_dumps(vals[i])
         \o dumps_members(keys, vals, i + 1)
json_dumps(v) ==
    CASE v.t = "null" -> <<NullTok>>
      [] v.t = "str" -> <<StrTok(v.s)>>
      [] v.t = "num" -> <<NumTok(v.n)>>
      [] v.t = "arr" -> <<Punct("[")>> \o dumps_items(v.items, 1) \o <<Punct("]")>>
      [] v.t = "obj" -> <<Punct("{")>> \o dumps_members(v.keys, v.vals, 1)
                        \o <<Punct("}")>>

\* The reader of an artifact file (the embed runtime's JSON parser): a
\* recursive-descent parser of the token text, [val, rest] or [err].
IsPunct(ts, c) == Len(ts) > 0 /\ Head(ts).k = "punct" /\ Head(ts).v = c
ParseError == [err |-> TRUE]
RECURSIVE json_parse(_)
RECURSIVE parse_items(_, _)
RECURSIVE parse_members(_, _, _)
parse_items(ts, acc) ==
    LET r == json_parse(ts) IN
    IF "err" \in DOMAIN r THEN r
    ELSE IF IsPunct(r.rest, ",") THEN parse_items(Tail(r.rest), Append(acc, r.val))
    ELSE IF IsPunct(r.rest, "]")
         THEN [val |-> Arr(Append(acc, r.val)), rest |-> Tail(r.rest)]
    ELSE ParseError
parse_members(ts, keys, vals) ==
    IF Len(ts) >= 2 /\ Head(ts).k = "str" /\ IsPunct(Tail(ts), ":")
    THEN LET r == json_parse(Tail(Tail(ts)))
             ks == Append(keys, Head(ts).v)
         IN  IF "err" \in DOMAIN r THEN r
             ELSE IF IsPunct(r.rest, ",")
                  THEN parse_members(Tail(r.rest), ks, Append(vals, r.val))
             ELSE IF IsPunct(r.rest, "}")
                  THEN [val |-> Obj(ks, Append(vals, r.val)), rest |-> Tail(r.rest)]
             ELSE ParseError
    ELSE ParseError
json_parse(ts) ==
    IF Len(ts) = 0 THEN ParseError
    ELSE LET h == Head(ts) IN
         CASE h.k = "null" -> [val |-> None, rest |-> Tail(ts)]
           [] h.k = "str" -> [val |-> Str(h.v), rest |-> Tail(ts)]
           [] h.k = "num" -> [val |-> Num(h.v), rest |-> Tail(ts)]
           [] h.k = "punct" ->
                IF h.v = "[" THEN
                    IF IsPunct(Tail(ts), "]")
                    THEN [val |-> Arr(<<>>), rest |-> Tail(Tail(ts))]
                    ELSE parse_items(Tail(ts), <<>>)
                ELSE IF h.v = "{" THEN
                    IF IsPunct(Tail(ts), "}")
                    THEN [val |-> Obj(<<>>, <<>>), rest |-> Tail(Tail(ts))]
                    ELSE parse_members(Tail(ts), <<>>, <<>>)
                ELSE ParseError
json_loads(ts) ==
    LET r == json_parse(ts) IN
    IF "err" \in DOMAIN r THEN r
    ELSE IF Len(r.rest) > 0 THEN ParseError
    ELSE r.val

\* ------------------------------------------------------------ the snippets
\* Expressions: a call that builds an object, a name, and a name read from
\* inside a function scope of the expression, as in (lambda: x)().
Lit(obj) == [e |-> "lit", obj |-> obj]
Name(id) == [e |-> "name", id |-> id]
Closure(id) == [e |-> "lambda", id |-> id]
\* Statements (ast nodes).  Expr and Assign carry a .value; Pass and If
\* (a control statement) do not.  Malformed is a line ast.parse rejects.
ExprStmt(e) == [kind |-> "Expr", value |-> e]
Assign(id, e) == [kind |-> "Assign", target |-> id, value |-> e]
If(e) == [kind |-> "If", test |-> e]
Pass == [kind |-> "Pass"]
Malformed == [kind |-> "Malformed"]

Exprs == {Lit(obj) : obj \in Objects} \cup {Name("x"), Closure("x")}
Stmts == {ExprStmt(e) : e \in Exprs}
         \cup {Assign("x", Lit(ChartBar)), Assign("x", Lit(ChartLine))}
         \cup {If(Name("x")), Pass, Malformed}

Ok(v, tr) == [status |-> "ok", value |-> v, trace |-> tr]
Raise(exc, tr) == [status |-> exc, trace |-> tr]

\* Name lookup of exec/eval: the locals mapping, then the globals mapping.
lookup(id, globals, locals) ==
    IF id \in DOMAIN locals THEN [found |-> TRUE, obj |-> locals[id]]
    ELSE IF id \in DOMAIN globals THEN [found |-> TRUE, obj |-> globals[id]]
    ELSE [found |-> FALSE]

\* Code in a function scope reads a free name from the globals mapping only:
\* the locals mapping given to exec/eval is not one of its enclosing scopes.
lookup_global(id, globals) ==
    IF id \in DOMAIN globals THEN [found |-> TRUE, obj |-> globals[id]]
    ELSE [found |-> FALSE]

evaluate(e, globals, locals) ==
    CASE e.e = "lit" -> [found |-> TRUE, obj |-> e.obj]
      [] e.e = "name" -> lookup(e.id, globals, locals)
      [] e.e = "lambda" -> lookup_global(e.id, globals)

\* exec(compile(block, ...), globals, locals): the statements of the block in
\* order from the i-th; tr records each statement as it is run.
RECURSIVE exec_block(_, _, _, _, _)
exec_block(stmts, i, globals, locals, tr) ==
    IF i > Len(stmts) THEN [status |-> "ok", locals |-> locals, trace |-> tr]
    ELSE LET s == stmts[i]
             tr1 == Append(tr, [op |-> "exec", line |-> i])
         IN  CASE s.kind = "Pass" ->
                    exec_block(stmts, i + 1, globals, locals, tr1)
               [] s.kind = "Expr" ->
                    IF evaluate(s.value, globals, locals).found
                    THEN exec_block(stmts, i + 1, globals, locals, tr1)
                    ELSE [status |-> "NameError", trace |-> tr1]
               [] s.kind = "If" ->
                    IF evaluate(s.test, globals, locals).found
                    THEN exec_block(stmts, i + 1, globals, locals, tr1)
                    ELSE [status |-> "NameError", trace |-> tr1]
               [] s.kind = "Assign" ->
                    LET r == evaluate(s.value, globals, locals) IN
                    IF r.found
                    THEN exec_block(stmts, i + 1, globals,
                            [id \in DOMAIN locals \cup {s.target} |->
                                IF id = s.target THEN r.obj ELSE locals[id]],
                            tr1)
                    ELSE [status |-> "NameError", trace |-> tr1]

Front(s) == SubSeq(s, 1, Len(s) - 1)
EmptyDict == [id \in {} |-> None]

exec_then_eval(lines) ==
    IF \E i \in 1..Len(lines) : lines[i].kind = "Malformed"
    THEN Raise("SyntaxError", <<>>)                       \* ast.parse
    ELSE IF Len(lines) = 0 THEN Raise("IndexError", <<>>) \* block.body.pop()
    ELSE LET popped == lines[Len(lines)]
             block == Front(lines)
         IN  IF "value" \notin DOMAIN popped
             THEN Raise("AttributeError", <<>>)           \* .value
             ELSE LET x == exec_block(block, 1, EmptyDict, EmptyDict, <<>>) IN
                  IF x.status # "ok" THEN Raise(x.status, x.trace)
                  ELSE LET tr == Append(x.trace, [op |-> "eval", line |-> Len(lines)])
                           r == evaluate(popped.value, EmptyDict, x.locals)
                       IN  IF r.found THEN Ok(r.obj, tr)
                           ELSE Raise("NameError", tr)

RECURSIVE SeqsUpTo(_, _)
SeqsUpTo(S, n) ==
    IF n = 0 THEN {<<>>}
    ELSE LET shorter == SeqsUpTo(S, n - 1) IN
         shorter \cup {Append(q, s) : q \in shorter, s \in S}

\* ------------------------------------------------------ the directive
\* self.options: the options present; a flag maps to None, alt to its text.
FlagNames == {"show-json", "hide-code", "code-below"}
Alts == {"A", ""}
OptionDicts ==
    {[o \in fl |-> None] : fl \in SUBSET FlagNames}
    \cup {[o \in fl \cup {"alt"} |-> IF o = "alt" THEN a ELSE None] :
            fl \in SUBSET FlagNames, a \in Alts}

\* A source path: the directory's components and the file name, the name cut
\* into pieces so that '.' and '-' are pieces of their own.
Srcdir == <<"doc">>
Outdir == <<"build", "html">>
Sources ==
    {[dir |-> <<"doc">>, file |-> <<"a", ".", "b", ".", "rst">>],
     [dir |-> <<"doc">>, file |-> <<"a", "-", "b", ".", "rst">>],
     [dir |-> <<"doc", "sub">>, file |-> <<"a", ".", "b", ".", "rst">>]}
Lineno == 7

dirname(path) == path.dir
basename(path) == path.file
\* str.replace('.', '-')
replace_dots(name) == [i \in 1..Len(name) |-> IF name[i] = "." THEN "-" ELSE name[i]]
RECURSIVE concat(_)
concat(pieces) == IF Len(pieces) = 0 THEN "" ELSE Head(pieces) \o concat(Tail(pieces))
\* os.path.relpath(path, start) for a path under start
relpath(dir, start) ==
    IF Len(dir) = Len(start) THEN <<".">>
    ELSE SubSeq(dir, Len(start) + 1, Len(dir))

\* env.new_serialno('altair-plot'): the number handed out and the counter after.
new_serialno(counter) == [no |-> counter, next |-> counter + 1]

\* div_id_of, were the serial number left out of the identifier
div_id_without_serial(rst_base, serialno) == rst_base \o "-altair-plot"

target_id_of(rst_base, serialno) == rst_base \o "-altair-source-" \o ToString(serialno)
div_id_of(rst_base, serialno) == rst_base \o "-altair-plot-" \o ToString(serialno)

literal_block(rawsource, text, language) ==
    [type |-> "literal_block", rawsource |-> rawsource, text |-> text,
     language |-> language]

\* result_nodes, were the plot node appended last whatever the flag
result_nodes_plot_last(code_below, show_code, show_json, target_node, plot_node, source_literal, json_literal) ==
    <<target_node>>
    \o (IF show_code THEN <<source_literal>> ELSE <<>>)
    \o (IF show_json THEN <<json_literal>> ELSE <<>>)
    \o <<plot_node>>

\* Lines 107-118: the node sequence run returns.
result_nodes(code_below, show_code, show_json, target_node, plot_node, source_literal, json_literal) ==
    <<target_node>>
    \o (IF code_below THEN <<plot_node>> ELSE <<>>)
    \o (IF show_code THEN <<source_literal>> ELSE <<>>)
    \o (IF show_json THEN <<json_literal>> ELSE <<>>)
    \o (IF ~code_below THEN <<plot_node>> ELSE <<>>)

Failed(exc, counter, chart) ==
    [status |-> exc, result |-> <<>>, serial |-> counter, ret |-> chart]

\* AltairPlotDirective.run, one invocation: its outcome, the nodes it returns,
\* the counter it leaves and what exec_then_eval gave it.
run(options, content, rst_source, lineno, counter) ==
    LET show_code == "hide-code" \notin DOMAIN options
        show_json == "show-json" \in DOMAIN options
        code_below == "code-below" \in DOMAIN options
        code == content
        chart == exec_then_eval(code)
    IN  IF chart.status # "ok" THEN Failed(chart.status, counter, chart)
        ELSE IF ~has_to_dict(chart.value) THEN Failed("AttributeError", counter, chart)
        ELSE IF show_json THEN Failed("NameError", counter, chart)   \* specjson
        ELSE
        LET spec == to_dict(chart.value)
            source_literal == literal_block(code, code, "python")
            rst_dir == dirname(rst_source)
            rst_base == concat(replace_dots(basename(rst_source)))
            sn == new_serialno(counter)
            target_id == target_id_of(rst_base, sn.no)
            div_id == div_id_of(rst_base, sn.no)
            target_node == [type |-> "target", ids |-> <<target_id>>]
            attrs == [type |-> "altair_plot", target_id |-> target_id,
                      div_id |-> div_id, source |-> source_literal,
                      relpath |-> relpath(rst_dir, Srcdir),
                      rst_source |-> rst_source, rst_lineno |-> lineno,
                      spec |-> spec]
            plot_node == IF "alt" \in DOMAIN options
                         THEN [a \in DOMAIN attrs \cup {"alt"} |->
                                 IF a = "alt" THEN options["alt"] ELSE attrs[a]]
                         ELSE attrs
        IN  IF ~show_code                       \* source_literal is unbound
            THEN Failed("UnboundLocalError", sn.next, chart)
            ELSE [status |-> "ok",
                  result |-> result_nodes(code_below, show_code, show_json,
                                          target_node, plot_node,
                                          source_literal, None),
                  serial |-> sn.next, ret |-> chart]

\* ------------------------------------------------------------ the visitors
Formats == {"html", "latex", "texinfo", "text", "man"}
\* setup: app.add_node(altair_plot, html=..., latex=..., ...), lines 150-166
visitor_of(format) ==
    IF format = "html" THEN "html_visit_altair_plot"
    ELSE "generic_visit_altair_plot"

\* os.path.join(a, b) and the file the operating system resolves a path to
path_join(a, b) == a \o b
resolve(path) == SelectSeq(path, LAMBDA c : c # ".")
RECURSIVE prefixes(_)
prefixes(path) ==
    IF Len(path) = 0 THEN {} ELSE {path} \cup prefixes(Front(path))

\* vl_json_name, were every artifact written under one fixed name
vl_json_fixed_name(div_id) == "plot.vl.json"

vl_json_name(div_id) == div_id \o ".vl.json"
embed_payload(spec) == Obj(<<"mode", "spec">>, <<Str("vega-lite"), spec>>)

\* VGL_TEMPLATE.render(div_id=..., filename=...): the fragment's parts.
VGL_TEMPLATE(div_id, filename) ==
    [container |-> div_id,
     scripts |-> <<"https://d3js.org/d3.v3.min.js",
                   "https://vega.github.io/vega/vega.js",
                   "https://vega.github.io/vega-lite/vega-lite.js",
                   "https://vega.github.io/vega-editor/vendor/vega-embed.js">>,
     embed |-> [selector |-> "#" \o div_id, filename |-> filename]]

\* placeholder, were the alt text never looked at
placeholder_without_alt(node) == "[ graph ]"

\* _('[ graph: %s ]') % node['alt'] and _('[ graph ]')
placeholder(node) ==
    IF "alt" \in DOMAIN node THEN "[ graph: " \o node.alt \o " ]"
    ELSE "[ graph ]"

write_file(fs, dest_dir, dest_path, text) ==
    [dirs |-> fs.dirs \cup prefixes(resolve(dest_dir)),
     data |-> [p \in DOMAIN fs.data \cup {resolve(dest_path)} |->
                 IF p = resolve(dest_path) THEN text ELSE fs.data[p]]]

\* ------------------------------------------------------------------ state
NotCalled == [status |-> "not called"]
NoArgs == [options |-> <<>>, content |-> <<>>, source |-> <<>>]
NoVisit == [visitor |-> "none"]
EmptyFs == [dirs |-> {}, data |-> [p \in {} |-> <<>>]]

\* The inputs of the invocations of a build, and of one invocation on its own.
BuildBlocks ==
    {<<ExprStmt(Lit(ChartBar))>>,
     <<Assign("x", Lit(ChartLine)), ExprStmt(Name("x"))>>,
     <<ExprStmt(Lit(ChartNone))>>}
BuildOptions ==
    {[o \in {} |-> None], [o \in {"hide-code"} |-> None],
     [o \in {"show-json"} |-> None], [o \in {"alt"} |-> "A"]}
Blocks == SeqsUpTo(Stmts, MaxStmts)

Init ==
    /\ serial = 0
    /\ doctree = <<>>
    /\ last = NotCalled
    /\ files = EmptyFs
    /\ body = <<>>
    /\ visited = {}
    /\ sig = NoVisit
    /\ builder \in Formats
    /\ args = NoArgs
    /\ ret = NotCalled
    /\ log = <<>>

\* One invocation of the directive on the given inputs; the host inserts the
\* returned nodes in the document.
Invoke(options, content, source) ==
    LET r == run(options, content, source, Lineno, serial) IN
    /\ last' = [status |-> r.status, result |-> r.result]
    /\ ret' = r.ret
    /\ serial' = r.serial
    /\ doctree' = doctree \o r.result
    /\ log' = Append(log, [returned |-> r.status = "ok",
                           drew |-> IF r.serial = serial THEN <<>> ELSE <<serial>>])
    /\ UNCHANGED <<files, body, visited, sig, builder>>

\* A directive invocation during the build's reading phase.
Run ==
    /\ visited = {}
    /\ Len(log) < MaxRuns
    /\ \E options \in BuildOptions, content \in BuildBlocks, source \in Sources :
        /\ args' = [options |-> options, content |-> content, source |-> source]
        /\ Invoke(options, content, source)

PlotNodes == {i \in 1..Len(doctree) : doctree[i].type = "altair_plot"}

HtmlVisit ==
    /\ visitor_of(builder) = "html_visit_altair_plot"
    /\ \E i \in PlotNodes \ visited :
        LET node == doctree[i]
            embed_spec == json_dumps(embed_payload(node.spec))
            dest_dir == path_join(Outdir, node.relpath)
            filename == vl_json_name(node.div_id)
            dest_path == path_join(dest_dir, <<filename>>)
            html == VGL_TEMPLATE(node.div_id, filename)
        IN  /\ files' = write_file(files, dest_dir, dest_path, embed_spec)
            /\ body' = Append(body, html)
            /\ visited' = visited \cup {i}
            /\ sig' = [visitor |-> "html_visit_altair_plot", node |-> i,
                       raised |-> "SkipNode"]
    /\ UNCHANGED <<serial, doctree, last, builder, args, ret, log>>

GenericVisit ==
    /\ visitor_of(builder) = "generic_visit_altair_plot"
    /\ \E i \in PlotNodes \ visited :
        /\ body' = Append(body, placeholder(doctree[i]))
        /\ visited' = visited \cup {i}
        /\ sig' = [visitor |-> "generic_visit_altair_plot", node |-> i,
                   raised |-> "SkipNode"]
    /\ UNCHANGED <<serial, doctree, last, files, builder, args, ret, log>>

Next == Run \/ HtmlVisit \/ GenericVisit

Spec == Init /\ [][Next]_vars

\* One invocation on its own: the inputs are drawn at the start and the
\* directive runs on them once.
InitRun ==
    /\ serial = 0
    /\ doctree = <<>>
    /\ last = NotCalled
    /\ files = EmptyFs
    /\ body = <<>>
    /\ visited = {}
    /\ sig = NoVisit
    /\ builder = "html"
    /\ args \in [options : OptionDicts, content : Blocks, source : Sources]
    /\ ret = NotCalled
    /\ log = <<>>

RunArgs ==
    /\ last = NotCalled
    /\ args' = args
    /\ Invoke(args.options, args.content, args.source)

NextRun == RunArgs

SpecRun == InitRun /\ [][NextRun]_vars

\* ------------------------------------------------------------- properties
Opt(name) == name \in DOMAIN args.options
Called == last.status # "not called"
PlotAt(r) == {i \in 1..Len(r) : r[i].type = "altair_plot"}
ListingAt(r, lang) ==
    {i \in 1..Len(r) : r[i].type = "literal_block" /\ r[i].language = lang}
\* The content block executes and its value converts to a Specification.
ExecutesOk == Called /\ ret.status = "ok" /\ has_to_dict(ret.value)
LastStmt == args.content[Len(args.content)]
Parses == \A i \in 1..Len(args.content) : args.content[i].kind # "Malformed"

\* C1 as stated: in a successful run the anchor is first, there is exactly one
\* plot node, without code-below the plot node comes right after the anchor,
\* and with code-below it comes after the listings.
C1_PlotPositionAsStated ==
    last.status = "ok" =>
        LET r == last.result
            listings == ListingAt(r, "python") \cup ListingAt(r, "json")
        IN  /\ r[1].type = "target"
            /\ Cardinality(PlotAt(r)) = 1
            /\ ~Opt("code-below") =>
                    /\ r[2].type = "altair_plot"
                    /\ \A i \in listings : i > 2
            /\ Opt("code-below") =>
                    \A i \in listings : \A j \in PlotAt(r) : j > i

\* C1 amended: in a successful run the anchor is first, there is exactly one
\* plot node, WITH code-below the plot node comes right after the anchor and
\* before the listing (the code is below the plot), and WITHOUT it the plot
\* node comes last, after the listings.
C1_PlotPosition ==
    last.status = "ok" =>
        LET r == last.result
            listings == ListingAt(r, "python") \cup ListingAt(r, "json")
        IN  /\ r[1].type = "target"
            /\ Cardinality(PlotAt(r)) = 1
            /\ Opt("code-below") =>
                    /\ r[2].type = "altair_plot"
                    /\ \A i \in listings : i > 2
            /\ ~Opt("code-below") =>
                    /\ r[Len(r)].type = "altair_plot"
                    /\ \A i \in listings : i < Len(r)

C1_Witness ==
    /\ last.status = "ok"
    /\ Opt("code-below")
    /\ ListingAt(last.result, "python") = {3}
    /\ PlotAt(last.result) = {2}

\* C2 as stated: a block whose final statement is not an expression (an
\* assignment, a control statement) fails before anything is run, the failure
\* is the invocation's failure, and no node is returned.  (Either error of the
\* parsing stage, ast.parse's or the .value lookup's, is taken as the
\* SYNTAX/PARSE error.)
C2_NonExpressionFails ==
    (Called /\ Len(args.content) > 0 /\ Parses /\ LastStmt.kind # "Expr") =>
        /\ ret.status \in {"SyntaxError", "AttributeError"}
        /\ ret.trace = <<>>
        /\ last.status = ret.status
        /\ last.result = <<>>

\* C3 as stated: when the block executes, the run returns a node sequence with
\* the anchor and the plot node, and with a source listing iff hide-code is
\* absent, whatever code-below and alt are.  (The claim's instances without
\* show-json; those with it are C4's.)
C3_SourceListingIffShown ==
    (ExecutesOk /\ ~Opt("show-json")) =>
        /\ last.status = "ok"
        /\ Len(last.result) > 0 /\ last.result[1].type = "target"
        /\ Cardinality(PlotAt(last.result)) = 1
        /\ (ListingAt(last.result, "python") # {}) <=> ~Opt("hide-code")

\* C4 as stated: when the block executes, with show-json the run succeeds and
\* returns a JSON listing of the Specification, right after the source
\* listing when there is one; without show-json there is no JSON listing.
\* (The claim's instances without hide-code; those with it are C3's.)
C4_JsonListing ==
    (ExecutesOk /\ ~Opt("hide-code")) =>
        IF Opt("show-json")
        THEN /\ last.status = "ok"
             /\ \E i \in ListingAt(last.result, "json") :
                    /\ last.result[i].text = json_dumps(to_dict(ret.value))
                    /\ \A j \in ListingAt(last.result, "python") : i = j + 1
        ELSE last.status = "ok" => ListingAt(last.result, "json") = {}

\* ---- the build
Returned == SelectSeq(log, LAMBDA e : e.returned)
PlotSeq == SelectSeq(doctree, LAMBDA nd : nd.type = "altair_plot")
TargetSeq == SelectSeq(doctree, LAMBDA nd : nd.type = "target")

\* C5: the invocations that return draw distinct serial numbers, increasing in
\* invocation order; the k-th returned plot node's identifiers are
\* a-b-rst-altair-source-<n> and a-b-rst-altair-plot-<n> for the n it drew;
\* and all identifiers of the build are pairwise different, also between
\* source files whose names coincide once '.' is replaced.
C5_SerialsAndIdsUnique ==
    /\ Len(Returned) = Len(PlotSeq)
    /\ Len(TargetSeq) = Len(PlotSeq)
    /\ \A i \in 1..Len(Returned) : Len(Returned[i].drew) = 1
    /\ \A i, j \in 1..Len(Returned) :
        i < j => Returned[i].drew[1] < Returned[j].drew[1]
    /\ \A i \in 1..Len(PlotSeq) :
        /\ PlotSeq[i].div_id = "a-b-rst-altair-plot-" \o ToString(Returned[i].drew[1])
        /\ PlotSeq[i].target_id
             = "a-b-rst-altair-source-" \o ToString(Returned[i].drew[1])
        /\ TargetSeq[i].ids = <<PlotSeq[i].target_id>>
    /\ \A i, j \in 1..Len(PlotSeq) :
        /\ PlotSeq[i].div_id # PlotSeq[j].target_id
        /\ i # j => /\ PlotSeq[i].div_id # PlotSeq[j].div_id
                    /\ PlotSeq[i].target_id # PlotSeq[j].target_id

C5_Witness ==
    /\ Len(PlotSeq) = 2
    /\ PlotSeq[1].rst_source.file = <<"a", ".", "b", ".", "rst">>
    /\ PlotSeq[2].rst_source.file = <<"a", "-", "b", ".", "rst">>
    /\ PlotSeq[1].rst_source.dir = PlotSeq[2].rst_source.dir

\* The artifact of a node: <outdir>/<relpath>/<div-id>.vl.json
ArtifactName(node) == node.div_id \o ".vl.json"
ArtifactPath(node) ==
    Outdir \o (IF node.relpath = <<".">> THEN <<>> ELSE node.relpath)
           \o <<ArtifactName(node)>>

\* C6: after any HTML renderings, every rendered node's artifact file exists
\* at <outdir>/<relpath>/<div-id>.vl.json, parses to
\* {"mode": "vega-lite", "spec": S} for the node's own S, and is the file the
\* node's markup names; each rendering wrote a file of its own.
C6_ArtifactPerNode ==
    builder = "html" =>
        /\ Cardinality(DOMAIN files.data) = Cardinality(visited)
        /\ Len(body) = Cardinality(visited)
        /\ \A i \in visited :
            LET node == doctree[i] IN
            /\ ArtifactPath(node) \in DOMAIN files.data
            /\ json_loads(files.data[ArtifactPath(node)])
                 = Obj(<<"mode", "spec">>, <<Str("vega-lite"), node.spec>>)
            /\ Front(ArtifactPath(node)) \in files.dirs
            /\ \E k \in 1..Len(body) :
                /\ body[k].container = node.div_id
                /\ body[k].embed.selector = "#" \o node.div_id
                /\ body[k].embed.filename = ArtifactName(node)

C6_Witness ==
    /\ builder = "html"
    /\ \E i, j \in visited :
        /\ i < j
        /\ doctree[i].spec = SpecLine /\ doctree[j].spec = SpecBar
        /\ doctree[i].relpath = doctree[j].relpath
        /\ doctree[i].rst_source # doctree[j].rst_source
    /\ sig.visitor = "html_visit_altair_plot" /\ sig.raised = "SkipNode"

\* C7: a static-format visitor appends exactly "[ graph: A ]" for a node with
\* alt text "A" and exactly "[ graph ]" for a node without, then raises
\* SkipNode; a static build writes no artifact file.
C7_StaticPlaceholder ==
    builder # "html" =>
        /\ files = EmptyFs
        /\ Len(body) = Cardinality(visited)
        /\ \A k \in 1..Len(body) : body[k] \in {"[ graph: A ]", "[ graph ]"}
        /\ sig.visitor # "html_visit_altair_plot"
        /\ sig.visitor = "generic_visit_altair_plot" =>
            /\ sig.raised = "SkipNode"
            /\ sig.node \in visited
            /\ IF "alt" \in DOMAIN doctree[sig.node]
               THEN doctree[sig.node].alt = "A" /\ body[Len(body)] = "[ graph: A ]"
               ELSE body[Len(body)] = "[ graph ]"

C7_Witness ==
    /\ builder = "man"
    /\ body = <<"[ graph ]", "[ graph: A ]">>
    /\ sig.raised = "SkipNode"

\* C8 as stated: every plot node a visitor is given carries a non-null
\* Specification (an invocation whose block yields none fails and returns no
\* node).
C8_VisitedSpecNotNull ==
    \A i \in visited : doctree[i].spec # None

\* ---- the snippet executor
\* The name a statement reads, if any.
Reads(stmt) ==
    IF stmt.kind \in {"Expr", "Assign"}
    THEN (IF stmt.value.e \in {"name", "lambda"} THEN {stmt.value.id} ELSE {})
    ELSE IF stmt.kind = "If"
    THEN (IF stmt.test.e \in {"name", "lambda"} THEN {stmt.test.id} ELSE {})
    ELSE {}
AssignsBefore(i, id) ==
    {j \in 1..(i - 1) : args.content[j].kind = "Assign" /\ args.content[j].target = id}
Latest(S) == CHOOSE j \in S : \A k \in S : k <= j
\* What expression e denotes just before line i: a built object, or what the
\* latest earlier assignment to the name gave it.
RECURSIVE Denotes(_, _)
Denotes(i, e) ==
    IF e.e = "lit" THEN e.obj
    ELSE Denotes(Latest(AssignsBefore(i, e.id)),
                 args.content[Latest(AssignsBefore(i, e.id))].value)
Unbound == {i \in 1..Len(args.content) :
              \E id \in Reads(args.content[i]) : AssignsBefore(i, id) = {}}
InOrder(n, m) ==
    [i \in 1..m |-> [op |-> IF i < n THEN "exec" ELSE "eval", line |-> i]]

\* C9 as stated: for a block whose final statement is an expression, the
\* statements before it are run in order, once each, then the final one is
\* evaluated once, reading whatever names the earlier statements bound, and
\* its value is returned; the node's Specification is that value's
\* to_dict().  (A read of a name nothing bound stops the run there with a
\* NameError.)
C9_ExecThenEval ==
    (Called /\ Len(args.content) > 0 /\ Parses /\ LastStmt.kind = "Expr") =>
        LET n == Len(args.content) IN
        IF Unbound = {}
        THEN /\ ret.status = "ok"
             /\ ret.trace = InOrder(n, n)
             /\ ret.value = Denotes(n, LastStmt.value)
             /\ last.status = "ok" =>
                    \A i \in PlotAt(last.result) :
                        last.result[i].spec = Denotes(n, LastStmt.value).dict
        ELSE /\ ret.status = "NameError"
             /\ ret.trace = InOrder(n, CHOOSE i \in Unbound : \A k \in Unbound : i <= k)
             /\ last.status = "NameError"

\* C10 as stated: an invocation that raises draws no serial number, so the
\* serial numbers drawn are as many as the plot nodes returned.
C10_SerialOnlyOnReturn ==
    /\ \A i \in 1..Len(log) : ~log[i].returned => log[i].drew = <<>>
    /\ serial = Len(PlotSeq)

====
